---------------------------- MODULE Spec2Model ----------------------------
(***************************************************************************)
(* DiagnosticGenerator of src/language-server/diagnostics.ts: the handlers *)
(* that publish diagnostics to the editor, the reporting cycles they start *)
(* and the set urisReportedWarningsFor that remembers which URIs were      *)
(* reported.  The server runs on one thread: a handler, or the part of an  *)
(* async function between two awaits, is one atomic step.  The editor      *)
(* keeps diagnostics per URI, so the sendDiagnostics calls of a step are   *)
(* kept per URI, in the order made.                                        *)
(***************************************************************************)
EXTENDS Integers, Sequences, FiniteSets, Bags, TLC

\* ------------------------------------------------------------------ bounds

\* The longest list of warnings one lint pass returns.
MaxWarnings == 2
\* The most reporting cycles suspended at their lint call at one time.
MaxInFlight == 2

\* ------------------------------------------------------------- value types

\* Workspace paths of the package's files.
Paths == {"a.js", "c.js"}
\* Warning codes a rule can produce.
Codes == {"w1"}
\* The values of settings.projectConfig that updateLinter tells apart.
ProjectConfigs == {"noRules", "validRules", "invalidRules"}

\* converter.getUriForLocalPath
getUriForLocalPath(path) == "file:///" \o path
URIs == {getUriForLocalPath(p) : p \in Paths}
\* converter.getWorkspacePathToFile
getWorkspacePathToFile(uri) == CHOOSE p \in Paths : getUriForLocalPath(p) = uri

\* A Warning, as far as reporting reads it: sourceRange.file and code.
Warnings == [file : Paths, code : Codes]
\* converter.convertWarningToDiagnostic
convertWarningToDiagnostic(warning) ==
  [code |-> warning.code, source |-> "polymer-ide"]

SeqsUpTo(S, n) == UNION {[1..k -> S] : k \in 0..n}

\* registry.getRules(projectConfig.lint.rules): the rules, or a throw.
RegistryGetRules(config) ==
  IF config = "validRules" THEN [ok |-> TRUE, rules |-> {"rule"}]
  ELSE [ok |-> FALSE, rules |-> {}]

\* What a lint pass of a linter with the given rules can return for files.
LintResults(rules, files) ==
  IF rules = {} THEN {<<>>}
  ELSE {ws \in SeqsUpTo(Warnings, MaxWarnings) :
          \A i \in 1..Len(ws) : ws[i].file \in files}

\* ------------------------------------------------------------------- state

VARIABLES
  analyzeWholePackage,      \* settings.analyzeWholePackage
  documents,                \* the keys of documents: the open URIs
  linter,                   \* this.linter: the rules it was built with
  urisReportedWarningsFor,  \* the Set
  inflight,                 \* reportWarnings calls suspended at their await
  published,                \* per URI, the diagnostics the editor last got
  sends,                    \* per URI, the batches the last step sent it
  event,                    \* the handler or continuation that ran last
  prevWarnings,             \* history: warnings of the last package report
  latestResult,             \* history: outcome of the newest cycle started
  alwaysWholePackage,       \* history: the mode was never open-only
  switchedOut,              \* history: open-only now, whole-package before
  closedSince,              \* history: URIs closed in this open-only spell
  request,                  \* the fix or code-action request being served
  response                  \* what was returned for it

vars == <<analyzeWholePackage, documents, linter, urisReportedWarningsFor,
          inflight, published, sends, event, prevWarnings, latestResult,
          alwaysWholePackage, switchedOut, closedSince, request, response>>

\* prevWarnings from the switch into whole-package mode (or construction) to
\* the next package report: the documents open at the switch.
Seeded(docs) == [cycle |-> FALSE, warnings |-> <<>>, open |-> docs]
NoCycle == Seeded({})
\* prevWarnings after a package report of warnings.
Reported(warnings) == [cycle |-> TRUE, warnings |-> warnings, open |-> {}]
\* latestResult while the newest cycle is in flight, when its lint threw,
\* and when its lint returned warnings.
Pending == [outcome |-> "pending", warnings |-> <<>>]
Failed == [outcome |-> "failed", warnings |-> <<>>]
Resolved(warnings) == [outcome |-> "resolved", warnings |-> warnings]

\* No fix or code-action request is being served, and nothing was returned.
NoRequest == [op |-> "none"]
NoResponse == [op |-> "none"]

\* The record of a step that is about to run, with no URI, no project
\* configuration and no warnings: its kind, and the values that
\* urisReportedWarningsFor and prevWarnings have before it.
Event(kind) ==
  [kind |-> kind, uri |-> "", config |-> "", warnings |-> <<>>,
   newest |-> FALSE,
   reported |-> urisReportedWarningsFor, prev |-> prevWarnings]

\* ------------------------------------------------------- sendDiagnostics

\* No sendDiagnostics call.
NoSends == [u \in URIs |-> <<>>]

\* SendBatches calling sendDiagnostics once per diagnostic.
SendBatchesPerDiagnostic(ss, diagnosticsByUri) ==
  [u \in URIs |->
     IF u \in DOMAIN diagnosticsByUri
     THEN ss[u] \o [i \in 1..Len(diagnosticsByUri[u]) |->
                      <<diagnosticsByUri[u][i]>>]
     ELSE ss[u]]

\* connection.sendDiagnostics({uri, diagnostics}) for each entry of a
\* Map<string, Diagnostic[]>.
SendBatches(ss, diagnosticsByUri) ==
  [u \in URIs |->
     IF u \in DOMAIN diagnosticsByUri
     THEN Append(ss[u], diagnosticsByUri[u]) ELSE ss[u]]

\* connection.sendDiagnostics({uri, diagnostics: []}) for each URI of a Set.
SendClears(ss, uris) ==
  [u \in URIs |-> IF u \in uris THEN Append(ss[u], <<>>) ELSE ss[u]]

\* The editor keeps the last batch sent for each URI.
ApplySends(pub, ss) ==
  [u \in URIs |-> IF ss[u] = <<>> THEN pub[u] ELSE ss[u][Len(ss[u])]]

\* MapPush that puts the diagnostic first in its list.
MapPushFront(m, k, d) ==
  IF k \in DOMAIN m THEN [m EXCEPT ![k] = <<d>> \o @] ELSE m @@ (k :> <<d>>)

\* diagnosticsByUri.get(uri) || [], push, set.
MapPush(m, k, d) ==
  IF k \in DOMAIN m THEN [m EXCEPT ![k] = Append(@, d)] ELSE m @@ (k :> <<d>>)

\* new Map()
EmptyMap == [k \in {} |-> <<>>]

\* ------------------------------------------------- the two publishing paths

\* PackageLoop without reportedLastTime.delete(uri).
RECURSIVE PackageLoopNoDelete(_, _)
PackageLoopNoDelete(warnings, st) ==
  IF warnings = <<>> THEN st
  ELSE LET warning == Head(warnings)
           uri == getUriForLocalPath(warning.file)
       IN PackageLoopNoDelete(Tail(warnings),
            [reportedLastTime |-> st.reportedLastTime,
             urisReportedWarningsFor |-> st.urisReportedWarningsFor \cup {uri},
             diagnosticsByUri |->
               MapPush(st.diagnosticsByUri, uri,
                       convertWarningToDiagnostic(warning))])

\* The for loop of reportPackageWarnings over the warnings, on its locals.
RECURSIVE PackageLoop(_, _)
PackageLoop(warnings, st) ==
  IF warnings = <<>> THEN st
  ELSE LET warning == Head(warnings)
           uri == getUriForLocalPath(warning.file)
       IN PackageLoop(Tail(warnings),
            [reportedLastTime |-> st.reportedLastTime \ {uri},
             urisReportedWarningsFor |-> st.urisReportedWarningsFor \cup {uri},
             diagnosticsByUri |->
               MapPush(st.diagnosticsByUri, uri,
                       convertWarningToDiagnostic(warning))])

\* reportPackageWarnings that adds to the old set instead of replacing it.
reportPackageWarningsAccumulating(reported, warnings) ==
  LET st == PackageLoop(warnings,
              [reportedLastTime |-> reported,
               urisReportedWarningsFor |-> reported,
               diagnosticsByUri |-> EmptyMap])
  IN [sends |-> SendClears(SendBatches(NoSends, st.diagnosticsByUri),
                           st.reportedLastTime),
      urisReportedWarningsFor |-> st.urisReportedWarningsFor]

\* reportPackageWarnings(warnings) run on the set `reported`: the
\* sendDiagnostics calls it makes and the set it leaves.
reportPackageWarnings(reported, warnings) ==
  LET st == PackageLoop(warnings,
              [reportedLastTime |-> reported,
               urisReportedWarningsFor |-> {},
               diagnosticsByUri |-> EmptyMap])
  IN [sends |-> SendClears(SendBatches(NoSends, st.diagnosticsByUri),
                           st.reportedLastTime),
      urisReportedWarningsFor |-> DOMAIN st.diagnosticsByUri]

\* The for loop of reportWarnings' open-documents branch.
RECURSIVE OpenLoop(_, _)
OpenLoop(warnings, diagnosticsByUri) ==
  IF warnings = <<>> THEN diagnosticsByUri
  ELSE LET warning == Head(warnings)
       IN OpenLoop(Tail(warnings),
            MapPush(diagnosticsByUri, getUriForLocalPath(warning.file),
                    convertWarningToDiagnostic(warning)))

\* The sendDiagnostics calls of reportWarnings' open-documents branch.
reportOpenWarnings(warnings) ==
  SendBatches(NoSends, OpenLoop(warnings, EmptyMap))

\* ------------------------------------------------------- starting a cycle

\* reportWarnings() up to its await: the lint call it makes and is parked at.
NewCycle(whole, docs, rules) ==
  IF whole
  THEN [awaiting |-> "lintPackage", files |-> {}, rules |-> rules,
        newest |-> TRUE]
  ELSE [awaiting |-> "lint",
        files |-> {getWorkspacePathToFile(uri) : uri \in docs},
        rules |-> rules, newest |-> TRUE]

\* The parked cycles, none of them the newest any more.
Superseded(fl) ==
  LET older == {[c EXCEPT !.newest = FALSE] : c \in BagToSet(fl)}
  IN [d \in older |->
        (IF BagIn(d, fl) THEN CopiesIn(d, fl) ELSE 0)
        + (IF BagIn([d EXCEPT !.newest = TRUE], fl)
           THEN CopiesIn([d EXCEPT !.newest = TRUE], fl) ELSE 0)]

\* The parked cycles after reportWarnings() was called.
reportWarnings(fl, whole, docs, rules) ==
  Superseded(fl) (+) SetToBag({NewCycle(whole, docs, rules)})

\* The parked cycles after cycle c has run to its end.
Finished(fl, c) == fl (-) SetToBag({c})

\* updateLinter's choice of rules for new Linter(rules, analyzer).
updateLinterRules(config) ==
  IF config # "noRules" /\ RegistryGetRules(config).ok
  THEN RegistryGetRules(config).rules ELSE {}

\* The files a parked cycle's lint call covers.
CycleFiles(c) == IF c.awaiting = "lintPackage" THEN Paths ELSE c.files

\* -------------------------------------------------------------------- Init

\* The state the constructor leaves: updateLinter() has built the linter and
\* started the first cycle; no document is open, nothing was published.
Init ==
  /\ analyzeWholePackage \in BOOLEAN
  /\ documents = {}
  /\ urisReportedWarningsFor = {}
  /\ published = [u \in URIs |-> <<>>]
  /\ sends = NoSends
  /\ prevWarnings = NoCycle
  /\ \E config \in ProjectConfigs :
       /\ linter = updateLinterRules(config)
       /\ inflight = reportWarnings(EmptyBag, analyzeWholePackage,
                                    documents, linter)
       /\ event = [Event("constructor") EXCEPT !.config = config]
  /\ latestResult = Pending
  /\ alwaysWholePackage = analyzeWholePackage
  /\ switchedOut = FALSE
  /\ closedSince = {}
  /\ request = NoRequest
  /\ response = NoResponse

\* ----------------------------------------------------------------- actions

\* TextDocuments opens a document (no handler of this class runs).
DidOpenTextDocument(uri) ==
  /\ uri \notin documents
  /\ documents' = documents \cup {uri}
  /\ sends' = NoSends
  /\ closedSince' = closedSince \ {uri}
  /\ UNCHANGED <<switchedOut, request, response>>
  /\ event' = [Event("didOpen") EXCEPT !.uri = uri]
  /\ UNCHANGED <<analyzeWholePackage, linter, urisReportedWarningsFor,
                 inflight, published, prevWarnings, latestResult,
                 alwaysWholePackage>>

\* onDidCloseTextDocument without the test of the mode.
onDidCloseTextDocumentAlways(whole, uri) == SendClears(NoSends, {uri})

\* The connection.onDidCloseTextDocument handler: what it sends.
onDidCloseTextDocument(whole, uri) ==
  IF ~whole THEN SendClears(NoSends, {uri}) ELSE NoSends

\* A document is closed: TextDocuments drops it and the handler runs.
DidCloseTextDocument(uri) ==
  /\ uri \in documents
  /\ documents' = documents \ {uri}
  /\ sends' = onDidCloseTextDocument(analyzeWholePackage, uri)
  /\ published' = ApplySends(published, sends')
  /\ closedSince' = IF analyzeWholePackage THEN closedSince
                    ELSE closedSince \cup {uri}
  /\ UNCHANGED <<switchedOut, request, response>>
  /\ event' = [Event("didClose") EXCEPT !.uri = uri]
  /\ UNCHANGED <<analyzeWholePackage, linter, urisReportedWarningsFor,
                 inflight, prevWarnings, latestResult, alwaysWholePackage>>

\* updateLinter whose rule lookup is not wrapped in try/catch: a failed
\* lookup ends the listener before the linter is replaced.
ProjectConfigChangePropagating(config) ==
  /\ BagCardinality(inflight) < MaxInFlight
  /\ linter' = IF config = "noRules" \/ RegistryGetRules(config).ok
               THEN updateLinterRules(config) ELSE linter
  /\ inflight' = IF config = "noRules" \/ RegistryGetRules(config).ok
                 THEN reportWarnings(inflight, analyzeWholePackage,
                                     documents, linter')
                 ELSE inflight
  /\ latestResult' = IF config = "noRules" \/ RegistryGetRules(config).ok
                     THEN Pending ELSE latestResult
  /\ sends' = NoSends
  /\ UNCHANGED <<switchedOut, closedSince, request, response>>
  /\ event' = [Event("projectConfigChange") EXCEPT !.config = config]
  /\ UNCHANGED <<analyzeWholePackage, documents, urisReportedWarningsFor,
                 published, prevWarnings, alwaysWholePackage>>

\* settings.projectConfigChangeStream listener: updateLinter()
ProjectConfigChange(config) ==
  /\ BagCardinality(inflight) < MaxInFlight
  /\ linter' = updateLinterRules(config)
  /\ inflight' = reportWarnings(inflight, analyzeWholePackage, documents,
                                linter')
  /\ latestResult' = Pending
  /\ sends' = NoSends
  /\ UNCHANGED <<switchedOut, closedSince, request, response>>
  /\ event' = [Event("projectConfigChange") EXCEPT !.config = config]
  /\ UNCHANGED <<analyzeWholePackage, documents, urisReportedWarningsFor,
                 published, prevWarnings, alwaysWholePackage>>

\* fileSynchronizer.fileChanges listener: reportWarnings()
FileChanges ==
  /\ BagCardinality(inflight) < MaxInFlight
  /\ inflight' = reportWarnings(inflight, analyzeWholePackage, documents,
                                linter)
  /\ latestResult' = Pending
  /\ sends' = NoSends
  /\ UNCHANGED <<switchedOut, closedSince, request, response>>
  /\ event' = Event("fileChanges")
  /\ UNCHANGED <<analyzeWholePackage, documents, linter,
                 urisReportedWarningsFor, published, prevWarnings,
                 alwaysWholePackage>>

\* changeStreamListener that starts from an empty set on switching into
\* whole-package mode.
changeStreamListenerNoSeed(older, newer, docs, reported) ==
  IF newer # older
  THEN IF newer
       THEN [urisReportedWarningsFor |-> {}, sends |-> NoSends,
             reports |-> TRUE]
       ELSE [urisReportedWarningsFor |-> reported,
             sends |-> SendClears(NoSends, reported), reports |-> TRUE]
  ELSE [urisReportedWarningsFor |-> reported, sends |-> NoSends,
        reports |-> FALSE]

\* changeStreamListener that clears the open documents, not the reported
\* URIs, on switching out of whole-package mode.
changeStreamListenerClearsOpen(older, newer, docs, reported) ==
  IF newer # older
  THEN IF newer
       THEN [urisReportedWarningsFor |-> docs, sends |-> NoSends,
             reports |-> TRUE]
       ELSE [urisReportedWarningsFor |-> reported,
             sends |-> SendClears(NoSends, docs), reports |-> TRUE]
  ELSE [urisReportedWarningsFor |-> reported, sends |-> NoSends,
        reports |-> FALSE]

\* The settings.changeStream listener, analyzeWholePackage going from older
\* to newer: the set it leaves, what it sends, whether it calls
\* reportWarnings().
changeStreamListener(older, newer, docs, reported) ==
  IF newer # older
  THEN IF newer
       THEN [urisReportedWarningsFor |-> docs, sends |-> NoSends,
             reports |-> TRUE]
       ELSE [urisReportedWarningsFor |-> reported,
             sends |-> SendClears(NoSends, reported), reports |-> TRUE]
  ELSE [urisReportedWarningsFor |-> reported, sends |-> NoSends,
        reports |-> FALSE]

\* The settings change; settings.analyzeWholePackage is newer when the
\* listener runs.
SettingsChange(newer) ==
  LET r == changeStreamListener(analyzeWholePackage, newer, documents,
                                urisReportedWarningsFor) IN
  /\ r.reports => BagCardinality(inflight) < MaxInFlight
  /\ analyzeWholePackage' = newer
  /\ urisReportedWarningsFor' = r.urisReportedWarningsFor
  /\ sends' = r.sends
  /\ published' = ApplySends(published, sends')
  /\ inflight' = IF r.reports
                 THEN reportWarnings(inflight, newer, documents, linter)
                 ELSE inflight
  /\ latestResult' = IF r.reports THEN Pending ELSE latestResult
  /\ prevWarnings' = IF newer /\ ~analyzeWholePackage
                     THEN Seeded(documents) ELSE prevWarnings
  /\ alwaysWholePackage' = (alwaysWholePackage /\ newer)
  /\ switchedOut' = IF newer # analyzeWholePackage THEN ~newer
                    ELSE switchedOut
  /\ closedSince' = IF newer # analyzeWholePackage THEN {}
                    ELSE closedSince
  /\ UNCHANGED <<request, response>>
  /\ event' = Event("settingsChange")
  /\ UNCHANGED <<documents, linter>>

\* reportWarnings resuming into a reportPackageWarnings that awaits after its
\* read of the set: the set is emptied and the cycle is parked again.
LintPackageResolvesSuspending(c, warnings) ==
  /\ BagIn(c, inflight)
  /\ c.awaiting = "lintPackage"
  /\ warnings \in LintResults(c.rules, CycleFiles(c))
  /\ urisReportedWarningsFor' = {}
  /\ inflight' = Finished(inflight, c)
                   (+) SetToBag({[c EXCEPT !.awaiting = "reportPackageWarnings"]})
  /\ sends' = NoSends
  /\ UNCHANGED <<switchedOut, closedSince, request, response>>
  /\ event' = [Event("lintPackageResolved") EXCEPT
                 !.warnings = warnings, !.newest = c.newest]
  /\ UNCHANGED <<analyzeWholePackage, documents, linter, published,
                 prevWarnings, latestResult, alwaysWholePackage>>

\* reportWarnings that drops the result of a cycle that is not the newest.
LintPackageResolvesNewestOnly(c, warnings) ==
  /\ BagIn(c, inflight)
  /\ c.awaiting = "lintPackage"
  /\ warnings \in LintResults(c.rules, CycleFiles(c))
  /\ LET r == reportPackageWarnings(urisReportedWarningsFor, warnings) IN
       /\ sends' = IF c.newest THEN r.sends ELSE NoSends
       /\ urisReportedWarningsFor' =
            IF c.newest
            THEN r.urisReportedWarningsFor ELSE urisReportedWarningsFor
  /\ published' = ApplySends(published, sends')
  /\ inflight' = Finished(inflight, c)
  /\ UNCHANGED <<switchedOut, closedSince, request, response>>
  /\ event' = [Event("lintPackageResolved") EXCEPT
                 !.warnings = warnings, !.newest = c.newest]
  /\ prevWarnings' = Reported(warnings)
  /\ latestResult' = IF c.newest THEN Resolved(warnings) ELSE latestResult
  /\ UNCHANGED <<analyzeWholePackage, documents, linter, alwaysWholePackage>>

\* reportWarnings resumes after `await this.linter.lintPackage()` and runs
\* reportPackageWarnings(warnings).
LintPackageResolves(c, warnings) ==
  /\ BagIn(c, inflight)
  /\ c.awaiting = "lintPackage"
  /\ warnings \in LintResults(c.rules, CycleFiles(c))
  /\ LET r == reportPackageWarnings(urisReportedWarningsFor, warnings) IN
       /\ sends' = r.sends
       /\ urisReportedWarningsFor' = r.urisReportedWarningsFor
  /\ published' = ApplySends(published, sends')
  /\ inflight' = Finished(inflight, c)
  /\ UNCHANGED <<switchedOut, closedSince, request, response>>
  /\ event' = [Event("lintPackageResolved") EXCEPT
                 !.warnings = warnings, !.newest = c.newest]
  /\ prevWarnings' = Reported(warnings)
  /\ latestResult' = IF c.newest THEN Resolved(warnings) ELSE latestResult
  /\ UNCHANGED <<analyzeWholePackage, documents, linter, alwaysWholePackage>>

\* reportWarnings resumes after `await this.linter.lint(...)`.
LintResolves(c, warnings) ==
  /\ BagIn(c, inflight)
  /\ c.awaiting = "lint"
  /\ warnings \in LintResults(c.rules, CycleFiles(c))
  /\ sends' = reportOpenWarnings(warnings)
  /\ published' = ApplySends(published, sends')
  /\ inflight' = Finished(inflight, c)
  /\ UNCHANGED <<switchedOut, closedSince, request, response>>
  /\ event' = [Event("lintResolved") EXCEPT
                 !.warnings = warnings, !.newest = c.newest]
  /\ latestResult' = IF c.newest THEN Resolved(warnings) ELSE latestResult
  /\ UNCHANGED <<analyzeWholePackage, documents, linter,
                 urisReportedWarningsFor, prevWarnings, alwaysWholePackage>>

\* A rejection met after reportPackageWarnings had emptied the set.
LintRejectsAfterReset(c) ==
  /\ BagIn(c, inflight)
  /\ inflight' = Finished(inflight, c)
  /\ sends' = NoSends
  /\ UNCHANGED <<switchedOut, closedSince, request, response>>
  /\ event' = [Event("lintRejected") EXCEPT !.newest = c.newest]
  /\ latestResult' = IF c.newest THEN Failed ELSE latestResult
  /\ urisReportedWarningsFor' =
       IF c.awaiting = "lintPackage" THEN {} ELSE urisReportedWarningsFor
  /\ UNCHANGED <<analyzeWholePackage, documents, linter, published,
                 prevWarnings, alwaysWholePackage>>

\* The awaited lint call throws: reportWarnings' promise rejects there, and
\* nothing after the await runs.
LintRejects(c) ==
  /\ BagIn(c, inflight)
  /\ inflight' = Finished(inflight, c)
  /\ sends' = NoSends
  /\ UNCHANGED <<switchedOut, closedSince, request, response>>
  /\ event' = [Event("lintRejected") EXCEPT !.newest = c.newest]
  /\ latestResult' = IF c.newest THEN Failed ELSE latestResult
  /\ UNCHANGED <<analyzeWholePackage, documents, linter,
                 urisReportedWarningsFor, published, prevWarnings,
                 alwaysWholePackage>>

Next ==
  \/ \E uri \in URIs : DidOpenTextDocument(uri)
  \/ \E uri \in URIs : DidCloseTextDocument(uri)
  \/ \E config \in ProjectConfigs : ProjectConfigChange(config)
  \/ FileChanges
  \/ \E newer \in BOOLEAN : SettingsChange(newer)
  \/ \E c \in BagToSet(inflight) :
       \E warnings \in SeqsUpTo(Warnings, MaxWarnings) :
         LintPackageResolves(c, warnings)
  \/ \E c \in BagToSet(inflight) :
       \E warnings \in SeqsUpTo(Warnings, MaxWarnings) :
         LintResolves(c, warnings)
  \/ \E c \in BagToSet(inflight) : LintRejects(c)

Spec == Init /\ [][Next]_vars

\* ------------------------------------------------ what the claims speak of

\* The URIs that carry at least one warning of a lint result.
UrisOf(warnings) ==
  {getUriForLocalPath(warnings[i].file) : i \in 1..Len(warnings)}

\* How many sendDiagnostics calls of ss are for uri, and how many of them
\* carry an empty array.
SendsTo(ss, uri) == Len(ss[uri])
ClearsTo(ss, uri) == Cardinality({i \in 1..Len(ss[uri]) : ss[uri][i] = <<>>})

\* The diagnostics of one URI in a lint result, in the result's order.
DiagnosticsFor(warnings, uri) ==
  LET own == SelectSeq(warnings,
                       LAMBDA w : getUriForLocalPath(w.file) = uri)
  IN [i \in 1..Len(own) |-> convertWarningToDiagnostic(own[i])]

\* The warnings of a lint result, as a set.
WarningSet(warnings) == {warnings[i] : i \in 1..Len(warnings)}

PackageReported == event.kind = "lintPackageResolved"

\* C1: in a run of whole-package reports completing one after another, a URI
\* with a warning in the previous report and none in this one is sent exactly
\* one empty batch by this report, and a URI that had no warning in the
\* previous report is sent no empty batch (so no second clear until it has
\* had warnings again).
C1_ExactlyOnceClear ==
  (PackageReported /\ event.prev.cycle) =>
    \A u \in URIs :
      ClearsTo(sends, u) =
        IF u \in UrisOf(event.prev.warnings) /\ u \notin UrisOf(event.warnings)
        THEN 1 ELSE 0

C1_Witness ==
  /\ PackageReported
  /\ event.prev.cycle
  /\ \E u \in UrisOf(event.prev.warnings) \ UrisOf(event.warnings) :
       ClearsTo(sends, u) = 1
  /\ \E v \in URIs \ UrisOf(event.prev.warnings) : v \notin UrisOf(event.warnings)

\* C2: after reportPackageWarnings(W) on reported set R, the URIs sent an
\* empty batch are exactly R minus URIs(W) and the new reported set is
\* exactly URIs(W).
C2_DiffAndNewSet ==
  PackageReported =>
    /\ {u \in URIs : ClearsTo(sends, u) > 0} =
         event.reported \ UrisOf(event.warnings)
    /\ urisReportedWarningsFor = UrisOf(event.warnings)

C2_Witness ==
  /\ PackageReported
  /\ event.reported \ UrisOf(event.warnings) # {}
  /\ UrisOf(event.warnings) \ event.reported # {}

\* C3: a reporting cycle is suspended only at its lint call, before
\* reportPackageWarnings reads the set, so whenever a handler or another
\* cycle runs the set is a committed one: once a package report has
\* completed, the URIs of the last completed report's warnings, never the
\* emptied or partly rebuilt set; and only a package report or a settings
\* change has changed it.
C3_NoSuspensionInsideReport ==
  /\ \A c \in BagToSet(inflight) : c.awaiting \in {"lintPackage", "lint"}
  /\ prevWarnings.cycle =>
       urisReportedWarningsFor = UrisOf(prevWarnings.warnings)
  /\ urisReportedWarningsFor # event.reported =>
       event.kind \in {"lintPackageResolved", "settingsChange"}

C3_Witness ==
  /\ \E c \in BagToSet(inflight) : c.awaiting = "lintPackage"
  /\ PackageReported
  /\ event.reported # {}
  /\ urisReportedWarningsFor # {}
  /\ urisReportedWarningsFor # event.reported

\* C4: a cycle whose lint call fails sends nothing and leaves the reported
\* set, and what the editor shows, as they were.
C4_FailedCycleLeavesNoTrace ==
  [][event'.kind = "lintRejected" =>
       /\ \A u \in URIs : SendsTo(sends', u) = 0
       /\ published' = published
       /\ urisReportedWarningsFor' = urisReportedWarningsFor]_vars

C4_Witness ==
  /\ event.kind = "lintRejected"
  /\ urisReportedWarningsFor # {}
  /\ \E u \in URIs : published[u] # <<>>

\* C5 as claimed: the first package report after the switch into
\* whole-package mode, with a open at the switch and the one warning in
\* another file c, publishes c's warning and sends no empty batch for a.
C5_NoClearOfOpenDocument ==
  \A a \in URIs : \A c \in URIs \ {a} :
    ( /\ PackageReported
      /\ ~event.prev.cycle
      /\ a \in event.prev.open
      /\ Len(event.warnings) = 1
      /\ UrisOf(event.warnings) = {c} )
    => /\ sends[c] = <<DiagnosticsFor(event.warnings, c)>>
       /\ ClearsTo(sends, a) = 0

\* C5 as amended: that report publishes c's warning and sends a exactly one
\* empty batch, a being in the set seeded from the open documents.
C5_SeededDocumentClearedOnce ==
  \A a \in URIs : \A c \in URIs \ {a} :
    ( /\ PackageReported
      /\ ~event.prev.cycle
      /\ a \in event.prev.open
      /\ Len(event.warnings) = 1
      /\ UrisOf(event.warnings) = {c} )
    => /\ sends[c] = <<DiagnosticsFor(event.warnings, c)>>
       /\ sends[a] = << <<>> >>

C5_Witness ==
  \E a \in URIs : \E c \in URIs \ {a} :
    /\ PackageReported
    /\ analyzeWholePackage
    /\ ~event.prev.cycle
    /\ event.prev.open = {a}
    /\ documents = {a}
    /\ Len(event.warnings) = 1
    /\ UrisOf(event.warnings) = {c}
    /\ published[a] = <<>>
    /\ published[c] # <<>>

\* C6: the settings change from whole-package to open-only sends one empty
\* batch to each URI of the reported set and nothing else, and starts one
\* reporting cycle, of the open documents, beside the cycles in flight.
C6_SwitchOutClearsReported ==
  [][(event'.kind = "settingsChange" /\ analyzeWholePackage
        /\ ~analyzeWholePackage') =>
       /\ \A u \in URIs :
            /\ SendsTo(sends', u) =
                 IF u \in urisReportedWarningsFor THEN 1 ELSE 0
            /\ ClearsTo(sends', u) = SendsTo(sends', u)
       /\ BagCardinality(inflight') = BagCardinality(inflight) + 1
       /\ \E started \in BagToSet(inflight') :
            /\ started.newest
            /\ started.awaiting = "lint"
            /\ started.files = {getWorkspacePathToFile(u) : u \in documents}
            /\ \A c \in BagToSet(inflight) :
                 BagIn([c EXCEPT !.newest = FALSE],
                       inflight' (-) SetToBag({started}))]_vars

C6_Witness ==
  /\ event.kind = "settingsChange"
  /\ ~analyzeWholePackage
  /\ \E u \in URIs : SendsTo(sends, u) = 1
  /\ \E u \in documents : SendsTo(sends, u) = 0
  /\ BagCardinality(inflight) = 2

\* C7: a document-close event sends one empty batch for the closed URI when
\* the mode is open-only and nothing when it is whole-package; either way no
\* lint call is started and the reported set stays as it was.
C7_CloseClearsInOpenOnlyMode ==
  [][event'.kind = "didClose" =>
       /\ \A u \in URIs :
            sends'[u] = IF ~analyzeWholePackage /\ u = event'.uri
                        THEN << <<>> >> ELSE <<>>
       /\ inflight' = inflight
       /\ urisReportedWarningsFor' = urisReportedWarningsFor]_vars

C7_Witness ==
  /\ event.kind = "didClose"
  /\ ~analyzeWholePackage
  /\ sends[event.uri] = << <<>> >>
  /\ urisReportedWarningsFor # {}
  /\ inflight # EmptyBag

\* C8: a package report whose warnings are those of the package report
\* before it sends nothing to a URI without warnings, sends no empty batch
\* at all, and leaves the reported set as the report before left it.
C8_RepeatedReportIsQuiet ==
  (PackageReported /\ event.prev.cycle
     /\ WarningSet(event.prev.warnings) = WarningSet(event.warnings)) =>
    /\ \A u \in URIs \ UrisOf(event.warnings) : SendsTo(sends, u) = 0
    /\ \A u \in URIs : ClearsTo(sends, u) = 0
    /\ urisReportedWarningsFor = event.reported

C8_Witness ==
  /\ PackageReported
  /\ event.prev.cycle
  /\ event.warnings # <<>>
  /\ WarningSet(event.prev.warnings) = WarningSet(event.warnings)
  /\ URIs \ UrisOf(event.warnings) # {}

\* C9 as claimed: with no cycle in flight, what the editor last received for
\* each URI is what the lint pass of the newest cycle returned for it.
C9_ConvergesToNewestPass ==
  (inflight = EmptyBag /\ latestResult.outcome = "resolved") =>
    \A u \in URIs :
      published[u] = DiagnosticsFor(latestResult.warnings, u)

\* C10: in a run whose mode has been whole-package throughout, every cycle
\* in flight can complete, and the reported set and every URI's last
\* published diagnostics are those of the warnings of the package report
\* that ran last, whichever cycle was started last; each report sends one
\* batch to each URI of its warnings and one empty batch to each other URI
\* of the set the report before it left.
C10_LastToFinishWins ==
  alwaysWholePackage =>
    /\ \A c \in BagToSet(inflight) : ENABLED LintPackageResolves(c, <<>>)
    /\ urisReportedWarningsFor = UrisOf(prevWarnings.warnings)
    /\ \A u \in URIs :
         published[u] = DiagnosticsFor(prevWarnings.warnings, u)
    /\ PackageReported =>
         /\ event.reported = UrisOf(event.prev.warnings)
         /\ \A u \in URIs :
              sends[u] =
                IF u \in UrisOf(event.warnings) \cup event.reported
                THEN <<DiagnosticsFor(event.warnings, u)>> ELSE <<>>

\* Two cycles overlapped; the newest started finished first and the older
\* one, with other warnings, finished last.
C10_Witness ==
  /\ alwaysWholePackage
  /\ inflight = EmptyBag
  /\ PackageReported
  /\ ~event.newest
  /\ latestResult.outcome = "resolved"
  /\ UrisOf(latestResult.warnings) # UrisOf(prevWarnings.warnings)
  /\ UrisOf(prevWarnings.warnings) # {}
  /\ event.reported \ UrisOf(event.warnings) # {}

\* C15: construction and every project-configuration change replace the
\* linter and start exactly one reporting cycle, with that linter, whatever
\* the configured rule names: valid names give their rules, absent or
\* unknown names the empty rule set; the change is handled for every
\* configuration (a failed lookup does not end it) and the step publishes
\* nothing.
C15_UpdateLinterAlwaysReports ==
  /\ event.kind = "constructor" =>
       /\ linter = IF event.config = "validRules" THEN {"rule"} ELSE {}
       /\ BagCardinality(inflight) = 1
       /\ \A c \in BagToSet(inflight) : c.newest /\ c.rules = linter
       /\ \A u \in URIs : sends[u] = <<>> /\ published[u] = <<>>
  /\ [](BagCardinality(inflight) < MaxInFlight =>
          \A config \in ProjectConfigs : ENABLED ProjectConfigChange(config))
  /\ [][event'.kind = "projectConfigChange" =>
          /\ linter' = IF event'.config = "validRules" THEN {"rule"} ELSE {}
          /\ BagCardinality(inflight') = BagCardinality(inflight) + 1
          /\ \E started \in BagToSet(inflight') :
               /\ started.newest
               /\ started.rules = linter'
               /\ started.awaiting =
                    IF analyzeWholePackage THEN "lintPackage" ELSE "lint"
               /\ \A c \in BagToSet(inflight) :
                    BagIn([c EXCEPT !.newest = FALSE],
                          inflight' (-) SetToBag({started}))
          /\ \A u \in URIs : sends'[u] = <<>>
          /\ published' = published]_vars

\* The rule lookup failed while the linter had rules and a cycle was in
\* flight.
C15_Witness ==
  /\ event.kind = "projectConfigChange"
  /\ event.config = "invalidRules"
  /\ linter = {}
  /\ BagCardinality(inflight) = 2
  /\ \E c \in BagToSet(inflight) : ~c.newest /\ c.rules # {}
  /\ \E c \in BagToSet(inflight) : c.newest /\ c.rules = {}

\* A reporting cycle has just run from its lint call to its end.
CycleReported == event.kind \in {"lintPackageResolved", "lintResolved"}

\* C16: the step in which a cycle reports, in either mode, calls
\* sendDiagnostics at most once for each URI; a URI with a warning in the
\* pass gets exactly one batch, with as many diagnostics as the pass has
\* warnings for it, and no URI gets both a non-empty and an empty batch.
C16_OncePerUriPerCycle ==
  CycleReported =>
    \A u \in URIs :
      /\ SendsTo(sends, u) <= 1
      /\ u \in UrisOf(event.warnings) =>
           /\ SendsTo(sends, u) = 1
           /\ Len(sends[u][1]) =
                Cardinality({i \in 1..Len(event.warnings) :
                               getUriForLocalPath(event.warnings[i].file) = u})
      /\ ~(ClearsTo(sends, u) > 0 /\ ClearsTo(sends, u) < SendsTo(sends, u))

\* A package report sent one URI a batch of two diagnostics and cleared
\* another.
C16_Witness ==
  /\ PackageReported
  /\ \E u \in URIs : SendsTo(sends, u) = 1 /\ Len(sends[u][1]) = 2
  /\ \E v \in URIs : sends[v] = << <<>> >>

\* C18 as claimed: in open-only mode with no cycle in flight, a document
\* closed in this open-only spell and not reopened since has empty last
\* published diagnostics.
C18_ClosedDocumentStaysClear ==
  (~analyzeWholePackage /\ inflight = EmptyBag) =>
    \A u \in closedSince : published[u] = <<>>

\* C19 as claimed: no package report runs while the mode is open-only, and
\* after a switch from whole-package to open-only, once no cycle is in
\* flight, only open documents have non-empty last published diagnostics.
C19_SwitchOutLeavesOnlyOpenDocuments ==
  /\ PackageReported => analyzeWholePackage
  /\ (switchedOut /\ inflight = EmptyBag) =>
       \A u \in URIs \ documents : published[u] = <<>>

\* C20 as claimed: in whole-package mode with no cycle in flight, every URI
\* whose last published diagnostics are non-empty is in the reported set.
C20_NoMissedClear ==
  (analyzeWholePackage /\ inflight = EmptyBag) =>
    \A u \in URIs : published[u] # <<>> => u \in urisReportedWarningsFor

\* ===================================================== fix requests

\* The most warnings in the lint result of a fix request.
MaxFixes == 3
\* The most replacements in one fix.
MaxReplacements == 2
\* The largest offset of a replacement range.
MaxOffset == 2

\* A Replacement: range.file, the range's start and end offsets (the end
\* exclusive, the range not empty) and replacementText.
Replacements ==
  {r \in [file : Paths, start : 0..MaxOffset, end : 0..MaxOffset,
          replacementText : {"t"}] : r.start < r.end}
\* An Edit: a list of Replacements.
Edits == SeqsUpTo(Replacements, MaxReplacements)
\* warning.fix: undefined, or an Edit.
NoFix == [has |-> FALSE, edit |-> <<>>]
Fix(edit) == [has |-> TRUE, edit |-> edit]
\* The warnings of a lint result, as far as the fix requests read them.
FixWarnings == [code : Codes, fix : {NoFix} \cup {Fix(e) : e \in Edits}]

\* Every variable but request and response.
serverVars ==
  <<analyzeWholePackage, documents, linter, urisReportedWarningsFor,
    inflight, published, sends, event, prevWarnings, latestResult,
    alwaysWholePackage, switchedOut, closedSince>>

\* The server right after construction in open-only mode with no rules; a
\* fix or code-action request reads none of this but its lint result.
Constructed ==
  /\ analyzeWholePackage = FALSE
  /\ documents = {}
  /\ urisReportedWarningsFor = {}
  /\ published = [u \in URIs |-> <<>>]
  /\ sends = NoSends
  /\ prevWarnings = NoCycle
  /\ linter = {}
  /\ inflight = reportWarnings(EmptyBag, FALSE, {}, {})
  /\ event = [Event("constructor") EXCEPT !.config = "noRules"]
  /\ latestResult = Pending
  /\ alwaysWholePackage = FALSE
  /\ switchedOut = FALSE
  /\ closedSince = {}

\* Two replacement ranges share a character of one file.
areRangesOverlapping(a, b) ==
  a.file = b.file /\ a.start < b.end /\ b.start < a.end

\* applyEdits, as the indexes of the edits it applies: the edits are taken
\* in order and one that overlaps a replacement of an edit applied before
\* it is left out.
RECURSIVE ApplyLoop(_, _, _)
ApplyLoop(edits, i, applied) ==
  IF i > Len(edits) THEN applied
  ELSE IF \E j \in 1..Len(applied) :
            \E k \in 1..Len(edits[applied[j]]) : \E l \in 1..Len(edits[i]) :
              areRangesOverlapping(edits[i][l], edits[applied[j]][k])
       THEN ApplyLoop(edits, i + 1, applied)
       ELSE ApplyLoop(edits, i + 1, Append(applied, i))

applyEdits(edits) == ApplyLoop(edits, 1, <<>>)

\* The length-n list f(1), ..., f(n) of lists, concatenated.
RECURSIVE Flatten(_)
Flatten(lists) ==
  IF lists = <<>> THEN <<>> ELSE Head(lists) \o Flatten(Tail(lists))

\* converter.convertPRangeToL
convertPRangeToL(range) ==
  [start |-> [line |-> 0, character |-> range.start],
   end |-> [line |-> 0, character |-> range.end]]

\* TextEdit.replace(convertPRangeToL(replacement.range), replacementText)
TextEditOf(replacement) ==
  [range |-> convertPRangeToL(replacement), newText |-> replacement.replacementText]

\* converter.editsToWorkspaceEdit: per URI, the text edits of the applied
\* replacements of that file, in order.
editsToWorkspaceEdit(appliedEdits) ==
  LET all == Flatten(appliedEdits) IN
  [u \in {getUriForLocalPath(all[i].file) : i \in 1..Len(all)} |->
     LET own == SelectSeq(all, LAMBDA r : getUriForLocalPath(r.file) = u)
     IN [i \in 1..Len(own) |-> TextEditOf(own[i])]]

\* The indexes (in the lint result) of the warnings whose fix getAllFixes
\* collects.
RECURSIVE AllFixesLoop(_, _, _)
AllFixesLoop(warnings, i, fixes) ==
  IF i > Len(warnings) THEN fixes
  ELSE AllFixesLoop(warnings, i + 1,
                    IF warnings[i].fix.has THEN Append(fixes, i) ELSE fixes)

\* getAllFixes that returns every collected fix, without applyEdits.
getAllFixesUnchecked(warnings) ==
  LET fixes == AllFixesLoop(warnings, 1, <<>>)
  IN [op |-> "getAllFixes",
      submitted |-> fixes,
      applied |-> fixes,
      result |-> editsToWorkspaceEdit([k \in 1..Len(fixes) |->
                                         warnings[fixes[k]].fix.edit])]

\* getAllFixes(): what is collected, what applyEdits applies (as indexes of
\* warnings) and the WorkspaceEdit returned.
getAllFixes(warnings) ==
  LET fixes == AllFixesLoop(warnings, 1, <<>>)
      applied == applyEdits([k \in 1..Len(fixes) |->
                               warnings[fixes[k]].fix.edit])
      appliedEdits == [k \in 1..Len(applied) |->
                         warnings[fixes[applied[k]]].fix.edit]
  IN [op |-> "getAllFixes",
      submitted |-> fixes,
      applied |-> [k \in 1..Len(applied) |-> fixes[applied[k]]],
      result |-> editsToWorkspaceEdit(appliedEdits)]

\* FileFixesLoop that keeps every fix with some replacement in path.
RECURSIVE FileFixesLoopPartial(_, _, _, _)
FileFixesLoopPartial(warnings, path, i, edits) ==
  IF i > Len(warnings) THEN edits
  ELSE LET fix == warnings[i].fix IN
       FileFixesLoopPartial(warnings, path, i + 1,
         IF ~fix.has THEN edits
         ELSE IF fix.edit # <<>>
                 /\ \A k \in 1..Len(fix.edit) : fix.edit[k].file # path
              THEN edits
              ELSE Append(edits, i))

\* The for loop of getFixesForFile: the indexes of the warnings whose fix
\* it pushes to edits.
RECURSIVE FileFixesLoop(_, _, _, _)
FileFixesLoop(warnings, path, i, edits) ==
  IF i > Len(warnings) THEN edits
  ELSE LET fix == warnings[i].fix IN
       FileFixesLoop(warnings, path, i + 1,
         IF ~fix.has THEN edits
         ELSE IF \E k \in 1..Len(fix.edit) : fix.edit[k].file # path
              THEN edits
              ELSE Append(edits, i))

\* getFixesForFile(uri): what is submitted to applyEdits, what it applies
\* (as indexes of warnings) and the TextEdit[] returned.
getFixesForFile(uri, warnings) ==
  LET path == getWorkspacePathToFile(uri)
      edits == FileFixesLoop(warnings, path, 1, <<>>)
      applied == applyEdits([k \in 1..Len(edits) |->
                               warnings[edits[k]].fix.edit])
      appliedEdits == [k \in 1..Len(applied) |->
                         warnings[edits[applied[k]]].fix.edit]
      all == Flatten(appliedEdits)
  IN [op |-> "getFixesForFile",
      submitted |-> edits,
      applied |-> [k \in 1..Len(applied) |-> edits[applied[k]]],
      result |-> [i \in 1..Len(all) |-> TextEditOf(all[i])]]

\* A fix request arrives: its kind, its URI (getFixesForFile) and the
\* warnings its lint call will return.
InitFixes ==
  /\ Constructed
  /\ request \in [op : {"getAllFixes", "getFixesForFile"}, uri : URIs,
                  warnings : SeqsUpTo(FixWarnings, MaxFixes)]
  /\ request.op = "getAllFixes" =>
       request.uri = CHOOSE u \in URIs : TRUE
  /\ response = NoResponse

GetAllFixes ==
  /\ request.op = "getAllFixes"
  /\ response = NoResponse
  /\ response' = getAllFixes(request.warnings)
  /\ UNCHANGED <<serverVars, request>>

GetFixesForFile ==
  /\ request.op = "getFixesForFile"
  /\ response = NoResponse
  /\ response' = getFixesForFile(request.uri, request.warnings)
  /\ UNCHANGED <<serverVars, request>>

NextFixes == GetAllFixes \/ GetFixesForFile

SpecFixes == InitFixes /\ [][NextFixes]_vars

\* The elements of a list, as a set.
Elements(list) == {list[i] : i \in 1..Len(list)}

\* C11: getFixesForFile(uri) submits to applyEdits exactly the fixes all of
\* whose replacements are in the requested file, each once and in lint
\* order; a fix with a replacement in another file is not submitted, so
\* none of its replacements is returned; the returned TextEdits are the
\* replacements of the applied fixes, all of them in the requested file.
C11_OnlyWholeFileFixes ==
  response.op = "getFixesForFile" =>
    LET path == getWorkspacePathToFile(request.uri)
        ws == request.warnings
        InFile(i) == \A k \in 1..Len(ws[i].fix.edit) :
                        ws[i].fix.edit[k].file = path
    IN /\ \A i \in 1..Len(ws) :
            i \in Elements(response.submitted) <=> (ws[i].fix.has /\ InFile(i))
       /\ \A a, b \in 1..Len(response.submitted) :
            a < b => response.submitted[a] < response.submitted[b]
       /\ Elements(response.applied) \subseteq Elements(response.submitted)
       /\ response.result =
            Flatten([k \in 1..Len(response.applied) |->
                       [j \in 1..Len(ws[response.applied[k]].fix.edit) |->
                          TextEditOf(ws[response.applied[k]].fix.edit[j])]])
       /\ \A i \in Elements(response.applied) : InFile(i)

\* A fix with one replacement in the requested file and one in another file
\* was left out, and another fix was applied.
C11_Witness ==
  /\ response.op = "getFixesForFile"
  /\ \E i \in 1..Len(request.warnings) :
       LET edit == request.warnings[i].fix.edit IN
       /\ Len(edit) = 2
       /\ edit[1].file = getWorkspacePathToFile(request.uri)
       /\ edit[2].file # getWorkspacePathToFile(request.uri)
       /\ i \notin Elements(response.submitted)
  /\ response.result # <<>>

\* The fixes of warnings i and j of the request replace a common character
\* of one file.
FixesOverlap(i, j) ==
  \E k \in 1..Len(request.warnings[i].fix.edit) :
    \E l \in 1..Len(request.warnings[j].fix.edit) :
      LET a == request.warnings[i].fix.edit[k]
          b == request.warnings[j].fix.edit[l]
      IN a.file = b.file
         /\ \E c \in 0..MaxOffset :
              a.start <= c /\ c < a.end /\ b.start <= c /\ c < b.end

\* C12: in getAllFixes and getFixesForFile, of two collected fixes whose
\* replacement ranges overlap in one file at most one is applied; two
\* collected fixes that overlap neither each other nor any other collected
\* fix are both applied; and the returned edit holds the replacements of
\* the applied fixes and no others.
C12_ConflictingFixesExcluded ==
  response.op \in {"getAllFixes", "getFixesForFile"} =>
    LET ws == request.warnings
        collected == Elements(response.submitted)
        present == Elements(response.applied)
        kept == Flatten([k \in 1..Len(response.applied) |->
                           ws[response.applied[k]].fix.edit])
    IN /\ present \subseteq collected
       /\ \A i, j \in collected :
            (i # j /\ FixesOverlap(i, j)) => ~(i \in present /\ j \in present)
       /\ \A i, j \in collected :
            (i # j /\ \A m \in collected :
                        /\ m # i => ~FixesOverlap(i, m)
                        /\ m # j => ~FixesOverlap(j, m))
            => (i \in present /\ j \in present)
       /\ response.op = "getFixesForFile" =>
            response.result = [n \in 1..Len(kept) |-> TextEditOf(kept[n])]
       /\ response.op = "getAllFixes" =>
            \A u \in URIs :
              LET own == SelectSeq(kept,
                                   LAMBDA r : getUriForLocalPath(r.file) = u)
              IN IF own = <<>> THEN u \notin DOMAIN response.result
                 ELSE /\ u \in DOMAIN response.result
                      /\ response.result[u] =
                           [n \in 1..Len(own) |-> TextEditOf(own[n])]

\* getAllFixes collected three fixes: the second overlaps the first and was
\* left out, the third overlaps neither and was applied with the first.
C12_Witness ==
  /\ response.op = "getAllFixes"
  /\ response.submitted = <<1, 2, 3>>
  /\ FixesOverlap(1, 2)
  /\ ~FixesOverlap(1, 3)
  /\ response.applied = <<1, 3>>
  /\ request.warnings[1].fix.edit[1].file = request.warnings[3].fix.edit[1].file

\* =============================================== code-action requests

\* The last line and the last column of a position.
MaxLine == 2
MaxColumn == 2
\* The most warnings in the lint result of a code-action request, and the
\* most actions of one warning.
MaxActionWarnings == 2
MaxActions == 2

\* Positions of the analyzer ({line, column}) and of the protocol
\* ({line, character}).
Positions == [line : 0..MaxLine, column : 0..MaxColumn]
LPositions == [line : 0..MaxLine, character : 0..MaxColumn]
\* position a is before position b, or is b.
PositionLeq(a, b) ==
  a.line < b.line \/ (a.line = b.line /\ a.column <= b.column)
PositionLess(a, b) ==
  a.line < b.line \/ (a.line = b.line /\ a.column < b.column)
\* The SourceRanges of a file, and the protocol's Ranges.
SourceRanges(file) ==
  {r \in [file : {file}, start : Positions, end : Positions] :
     PositionLeq(r.start, r.end)}
LRanges ==
  {r \in [start : LPositions, end : LPositions] :
     r.start.line < r.end.line
       \/ (r.start.line = r.end.line /\ r.start.character <= r.end.character)}

\* converter.convertLRangeToP(range, textDocument)
convertLRangeToP(range, textDocument) ==
  [file |-> getWorkspacePathToFile(textDocument.uri),
   start |-> [line |-> range.start.line, column |-> range.start.character],
   end |-> [line |-> range.end.line, column |-> range.end.character]]

\* polymer-analyzer's isPositionInsideRange(position, range, includeEdges)
isPositionInsideRange(position, range, includeEdges) ==
  IF includeEdges
  THEN PositionLeq(range.start, position) /\ PositionLeq(position, range.end)
  ELSE PositionLess(range.start, position) /\ PositionLess(position, range.end)

\* isRangeInside with the edges of the outer range excluded.
isRangeInsideExclusive(inner, outer) ==
  isPositionInsideRange(inner.start, outer, FALSE)
    /\ isPositionInsideRange(inner.end, outer, FALSE)

\* function isRangeInside(inner, outer)
isRangeInside(inner, outer) ==
  isPositionInsideRange(inner.start, outer, TRUE)
    /\ isPositionInsideRange(inner.end, outer, TRUE)

\* Warning codes, two of them so that a command's title tells its warning.
WarningCodes == {"w1", "w2"}
\* An action's description as its pieces: text and line breaks.
Descriptions == {<<"d">>, <<"d", "\n", "e">>}
\* description.split('\n')[0]
FirstLine(description) ==
  LET breaks == {i \in 1..Len(description) : description[i] = "\n"}
  IN IF breaks = {} THEN description
     ELSE SubSeq(description, 1,
                 (CHOOSE i \in breaks : \A j \in breaks : i <= j) - 1)

\* The one edit the fixes and actions of a code-action request carry.
SomeEdit ==
  <<[file |-> "a.js", start |-> 0, end |-> 1, replacementText |-> "t"]>>
\* warning.actions: undefined, or a list of actions.
Actions == [kind : {"edit", "other"}, description : Descriptions,
            edit : {SomeEdit}]
NoActions == [has |-> FALSE, list |-> <<>>]
ActionList(list) == [has |-> TRUE, list |-> list]

\* commands.applyEditCommandName
applyEditCommandName == "polymer-ide/applyEdit"
\* createApplyEditCommand(title, edit)
createApplyEditCommand(title, edit) ==
  [title |-> title, command |-> applyEditCommandName,
   arguments |-> <<editsToWorkspaceEdit(<<edit>>)>>]

\* `Quick fix the '${warning.code}' warning`, as its pieces.
QuickFixTitle(code) == <<"Quick fix the '", code, "' warning">>

\* for (const action of warning.actions)
RECURSIVE ActionsLoop(_, _, _)
ActionsLoop(actions, i, commands) ==
  IF i > Len(actions) THEN commands
  ELSE ActionsLoop(actions, i + 1,
         IF actions[i].kind # "edit" THEN commands
         ELSE Append(commands,
                     createApplyEditCommand(FirstLine(actions[i].description),
                                            actions[i].edit)))

\* CodeActionsLoop that offers every action, whatever its kind.
RECURSIVE CodeActionsLoopAnyKind(_, _, _, _)
CodeActionsLoopAnyKind(warnings, i, requestedRange, commands) ==
  IF i > Len(warnings) THEN commands
  ELSE LET warning == warnings[i] IN
       IF (~warning.fix.has
             /\ (~warning.actions.has \/ Len(warning.actions.list) = 0))
          \/ ~isRangeInside(warning.sourceRange, requestedRange)
       THEN CodeActionsLoopAnyKind(warnings, i + 1, requestedRange, commands)
       ELSE LET fixed ==
                  IF warning.fix.has
                  THEN Append(commands,
                              createApplyEditCommand(
                                QuickFixTitle(warning.code), warning.fix.edit))
                  ELSE commands
            IN CodeActionsLoopAnyKind(warnings, i + 1, requestedRange,
                 fixed \o [k \in 1..Len(warning.actions.list) |->
                             createApplyEditCommand(
                               FirstLine(warning.actions.list[k].description),
                               warning.actions.list[k].edit)])

\* for (const warning of warnings) of getCodeActions
RECURSIVE CodeActionsLoop(_, _, _, _)
CodeActionsLoop(warnings, i, requestedRange, commands) ==
  IF i > Len(warnings) THEN commands
  ELSE LET warning == warnings[i] IN
       IF (~warning.fix.has
             /\ (~warning.actions.has \/ Len(warning.actions.list) = 0))
          \/ ~isRangeInside(warning.sourceRange, requestedRange)
       THEN CodeActionsLoop(warnings, i + 1, requestedRange, commands)
       ELSE LET fixed ==
                  IF warning.fix.has
                  THEN Append(commands,
                              createApplyEditCommand(
                                QuickFixTitle(warning.code), warning.fix.edit))
                  ELSE commands
            IN CodeActionsLoop(warnings, i + 1, requestedRange,
                 IF warning.actions.has
                 THEN ActionsLoop(warning.actions.list, 1, fixed)
                 ELSE fixed)

\* getCodeActions(req), warnings being what its lint call returns if made.
getCodeActions(req, warnings) ==
  IF req.diagnostics = 0
  THEN [op |-> "getCodeActions", linted |-> FALSE, commands |-> <<>>]
  ELSE [op |-> "getCodeActions", linted |-> TRUE,
        commands |->
          CodeActionsLoop(warnings, 1,
                          convertLRangeToP(req.range, req.textDocument),
                          <<>>)]

\* The onCodeAction handler serves the request.
GetCodeActions ==
  /\ request.op = "getCodeActions"
  /\ response = NoResponse
  /\ response' = getCodeActions(request, request.warnings)
  /\ UNCHANGED <<serverVars, request>>

NextCodeActions == GetCodeActions

\* A code-action request for any range of a.js, the lint result being one
\* warning with a fix, of any range.
InitRange ==
  /\ Constructed
  /\ request \in
       [op : {"getCodeActions"}, diagnostics : {1},
        textDocument : {[uri |-> getUriForLocalPath("a.js")]},
        range : LRanges,
        warnings : {<<[code |-> "w1", sourceRange |-> r,
                       fix |-> Fix(SomeEdit), actions |-> NoActions]>> :
                      r \in SourceRanges("a.js")}]
  /\ response = NoResponse

SpecRange == InitRange /\ [][NextCodeActions]_vars

\* The range every request of SpecCodeActions asks for, a warning range
\* inside it and one outside it.
RequestedRange ==
  [start |-> [line |-> 0, character |-> 1],
   end |-> [line |-> 1, character |-> 1]]
RangeInside ==
  [file |-> "a.js", start |-> [line |-> 0, column |-> 1],
   end |-> [line |-> 1, column |-> 0]]
RangeOutside ==
  [file |-> "a.js", start |-> [line |-> 0, column |-> 0],
   end |-> [line |-> 1, column |-> 0]]

\* The warnings of a lint result, as far as getCodeActions reads them.
ActionWarnings ==
  [code : WarningCodes, sourceRange : {RangeInside, RangeOutside},
   fix : {NoFix, Fix(SomeEdit)},
   actions : {NoActions} \cup
             {ActionList(l) : l \in SeqsUpTo(Actions, MaxActions)}]

\* A code-action request with or without diagnostics in its context, the
\* lint result being any list of warnings.
InitCodeActions ==
  /\ Constructed
  /\ request \in
       [op : {"getCodeActions"}, diagnostics : {0, 1},
        textDocument : {[uri |-> getUriForLocalPath("a.js")]},
        range : {RequestedRange},
        warnings : SeqsUpTo(ActionWarnings, MaxActionWarnings)]
  /\ response = NoResponse

SpecCodeActions == InitCodeActions /\ [][NextCodeActions]_vars

\* The place of a position, or of a protocol position, in reading order.
Place(line, column) == line * (MaxColumn + 1) + column

\* C13: a warning with a fix gets its command iff the start and the end of
\* its range are both inside the requested range, edges included; so it
\* gets it when its range is the requested range, and does not when its
\* start is one character before the requested start or its end one
\* character after the requested end.
C13_RangeTestInclusive ==
  response.op = "getCodeActions" =>
    LET inner == request.warnings[1].sourceRange
        outer == request.range
        qualifies == response.commands # <<>>
        from == Place(outer.start.line, outer.start.character)
        to == Place(outer.end.line, outer.end.character)
        Inside(pos) == from <= Place(pos.line, pos.column)
                         /\ Place(pos.line, pos.column) <= to
    IN /\ qualifies <=> (Inside(inner.start) /\ Inside(inner.end))
       /\ (inner.start = [line |-> outer.start.line,
                          column |-> outer.start.character]
             /\ inner.end = [line |-> outer.end.line,
                             column |-> outer.end.character]) => qualifies
       /\ (inner.start.line = outer.start.line
             /\ inner.start.column + 1 = outer.start.character) => ~qualifies
       /\ (inner.end.line = outer.end.line
             /\ inner.end.column = outer.end.character + 1) => ~qualifies

\* A warning whose range spans lines and is the requested range got its
\* command.
C13_Witness ==
  /\ response.op = "getCodeActions"
  /\ Len(request.warnings) = 1
  /\ request.range.start.line < request.range.end.line
  /\ request.range.start.character > request.range.end.character
  /\ request.warnings[1].sourceRange =
       convertLRangeToP(request.range, request.textDocument)
  /\ Len(response.commands) = 1

\* The commands expected for one warning of the lint result.
CommandsOf(warning) ==
  LET edits == IF warning.actions.has
               THEN SelectSeq(warning.actions.list,
                              LAMBDA action : action.kind = "edit")
               ELSE <<>>
      UpToBreak(d) ==
        SubSeq(d, 1, CHOOSE n \in 0..Len(d) :
                       /\ \A i \in 1..n : d[i] # "\n"
                       /\ n = Len(d) \/ d[n + 1] = "\n")
  IN IF warning.sourceRange # RangeInside THEN <<>>
     ELSE (IF warning.fix.has
           THEN <<[title |-> <<"Quick fix the '", warning.code, "' warning">>,
                   command |-> applyEditCommandName,
                   arguments |-> <<editsToWorkspaceEdit(<<warning.fix.edit>>)>>]>>
           ELSE <<>>)
          \o [k \in 1..Len(edits) |->
                [title |-> UpToBreak(edits[k].description),
                 command |-> applyEditCommandName,
                 arguments |-> <<editsToWorkspaceEdit(<<edits[k].edit>>)>>]]

\* C14: getCodeActions returns no command and makes no lint call when the
\* request's context has no diagnostics; otherwise it returns, for the
\* warnings of the lint result in order, the commands of each warning
\* inside the requested range: its fix's command, titled with its code,
\* then one command per action of kind 'edit' in order, titled with the
\* description up to its first line break; and nothing else.
C14_CodeActionsList ==
  response.op = "getCodeActions" =>
    IF request.diagnostics = 0
    THEN response.commands = <<>> /\ ~response.linted
    ELSE /\ response.linted
         /\ response.commands =
              Flatten([i \in 1..Len(request.warnings) |->
                         CommandsOf(request.warnings[i])])

\* The first warning, inside the range, has a fix, an action of another
\* kind and an edit action described on two lines; the second, with a fix,
\* is outside the range: two commands.
C14_Witness ==
  /\ response.op = "getCodeActions"
  /\ request.diagnostics = 1
  /\ Len(request.warnings) = 2
  /\ request.warnings[1].sourceRange = RangeInside
  /\ request.warnings[1].fix.has
  /\ request.warnings[1].actions.has
  /\ Len(request.warnings[1].actions.list) = 2
  /\ request.warnings[1].actions.list[1].kind = "other"
  /\ request.warnings[1].actions.list[2].kind = "edit"
  /\ request.warnings[1].actions.list[2].description = <<"d", "\n", "e">>
  /\ request.warnings[2].sourceRange = RangeOutside
  /\ request.warnings[2].fix.has
  /\ Len(response.commands) = 2
  /\ response.commands[2].title = <<"d">>

\* ================================================ one report, by itself

\* The most warnings of the lint result of one report.
MaxGrouped == 3

\* One cycle is about to report: the branch it took, the reported set it
\* finds and the warnings its lint call returned, of two codes.
InitGrouping ==
  /\ Constructed
  /\ request \in [op : {"reportWarnings"}, whole : BOOLEAN,
                  reported : SUBSET URIs,
                  warnings : SeqsUpTo([file : Paths, code : WarningCodes],
                                      MaxGrouped)]
  /\ request.whole \/ request.reported = {}
  /\ response = NoResponse

\* reportWarnings from its await to its end: what it sends.
ReportWarnings ==
  /\ request.op = "reportWarnings"
  /\ response = NoResponse
  /\ response' =
       [op |-> "reportWarnings",
        sends |-> IF request.whole
                  THEN reportPackageWarnings(request.reported,
                                             request.warnings).sends
                  ELSE reportOpenWarnings(request.warnings)]
  /\ UNCHANGED <<serverVars, request>>

NextGrouping == ReportWarnings

SpecGrouping == InitGrouping /\ [][NextGrouping]_vars

\* C17: in both modes the diagnostics sent for a URI by one report are the
\* diagnostics of the warnings of that URI's file, one for each, in the
\* order in which the lint result has those warnings.
C17_GroupingKeepsOrder ==
  response.op = "reportWarnings" =>
    \A u \in URIs :
      LET own == SelectSeq(request.warnings,
                           LAMBDA w : getUriForLocalPath(w.file) = u)
      IN Flatten(response.sends[u]) =
           [i \in 1..Len(own) |-> convertWarningToDiagnostic(own[i])]

\* A file's two warnings, of different codes, came with another file's
\* warning between them and were sent in one batch in their order.
C17_Witness ==
  /\ response.op = "reportWarnings"
  /\ Len(request.warnings) = 3
  /\ request.warnings[1].file = request.warnings[3].file
  /\ request.warnings[1].file # request.warnings[2].file
  /\ request.warnings[1].code # request.warnings[3].code
  /\ response.sends[getUriForLocalPath(request.warnings[1].file)] =
       << <<convertWarningToDiagnostic(request.warnings[1]),
            convertWarningToDiagnostic(request.warnings[3])>> >>

=============================================================================
